---- MODULE Spec2Model ----
(***************************************************************************)
(* String service (src/main.go, second listing, lines 136-393): two        *)
(* operations, Uppercase and Count, behind go-kit endpoints and an HTTP    *)
(* transport, decorated by a logging and an instrumenting middleware.      *)
(*                                                                         *)
(* A Go string is modelled as a sequence of characters; each character has *)
(* a UTF-8 width, so that len(s) (a byte count) and the number of          *)
(* characters are different things.  A Go error is modelled by its message *)
(* and nil by the value nil.  Every request is served by its own goroutine *)
(* (one element of Procs); goroutines interleave at every step.            *)
(***************************************************************************)
EXTENDS Integers, Sequences, FiniteSets, Bags, TLC

\* ------------------------------------------------------------------ bounds
NumProcs == 2
MaxRequests == 2
MaxLen == 1
MaxDepth == 2
MaxTook == 1

Procs == 1..NumProcs
Durations == 0..MaxTook

\* ------------------------------------------------------------- characters
Chars == {"a", "é"}

\* unicode.ToUpper on the characters above and on their images
upper(c) ==
  CASE c = "a" -> "A"
    [] c = "é" -> "É"
    [] OTHER -> c

\* number of bytes of the UTF-8 encoding of a character
utf8Len(c) == IF c \in {"é", "É"} THEN 2 ELSE 1

Strings == UNION {[1..k -> Chars] : k \in 0..MaxLen}

RECURSIVE ToUpper(_)
ToUpper(s) == IF s = <<>> THEN <<>> ELSE <<upper(Head(s))>> \o ToUpper(Tail(s))

\* Go's len on a string: the number of bytes
RECURSIVE len(_)
len(s) == IF s = <<>> THEN 0 ELSE utf8Len(Head(s)) + len(Tail(s))

\* ---------------------------------------------------------------- service
nil == "<nil>"
EmptyString == "Empty string"

\* Uppercase without the test for the empty string
UppercaseNoCheck(s) == [v |-> ToUpper(s), err |-> nil]

Uppercase(s) ==
  IF s = <<>> THEN [v |-> <<>>, err |-> EmptyString]
  ELSE [v |-> ToUpper(s), err |-> nil]

\* Count returning the zero value with the error
CountZero(s) ==
  IF s = <<>> THEN [v |-> 0, err |-> EmptyString]
  ELSE [v |-> len(s), err |-> nil]

Count(s) ==
  IF s = <<>> THEN [v |-> -1, err |-> EmptyString]
  ELSE [v |-> len(s), err |-> nil]

\* -------------------------------------------------------------- endpoints
\* the (response, error) pair the endpoint closure returns for the pair r
\* the service call returned
\* an endpoint that hands the service error to the transport
makeUppercaseEndpointPropagate(r) ==
  [response |-> [V |-> r.v, Err |-> ""], err |-> r.err]

makeUppercaseEndpoint(r) ==
  IF r.err # nil THEN [response |-> [V |-> <<>>, Err |-> r.err], err |-> nil]
  ELSE [response |-> [V |-> r.v, Err |-> ""], err |-> nil]

makeCountEndpoint(r) ==
  IF r.err # nil THEN [response |-> [V |-> -1, Err |-> r.err], err |-> nil]
  ELSE [response |-> [V |-> r.v, Err |-> ""], err |-> nil]

\* -------------------------------------------------------------- transport
Routes == {"/uppercase", "/count"}

\* Request bodies.  form: the first JSON value of the body is a complete
\* object, or the body ends inside it; field: what the object holds under
\* the key "s"; rest: what follows the first value in the body.
Bodies ==
  [form : {"object"}, field : {"string"}, s : Strings, rest : {"eof", "garbage"}]
  \cup [form : {"object"}, field : {"absent", "number"}, s : {<<>>}, rest : {"eof"}]
  \cup [form : {"truncated"}, field : {"absent"}, s : {<<>>}, rest : {"eof"}]

\* the body as a whole is a JSON document
WellFormed(b) == b.form = "object" /\ b.rest = "eof"

\* json.NewDecoder(r.Body).Decode(&request): reads the first JSON value of
\* the body and stores it in a struct with one string field S; what follows
\* that value is not read.
jsonDecode(b) ==
  IF b.form = "truncated" THEN [S |-> <<>>, err |-> "unexpected EOF"]
  ELSE IF b.field = "number" THEN [S |-> <<>>, err |-> "cannot unmarshal number"]
  ELSE IF b.field = "absent" THEN [S |-> <<>>, err |-> nil]
  ELSE [S |-> b.s, err |-> nil]

decodeUppercaseRequest(b) == jsonDecode(b)

decodeCountRequest(b) == jsonDecode(b)

\* json.NewEncoder(w).Encode(response): err carries omitempty
encodeResponse(r) ==
  IF r.Err = "" THEN [v |-> r.V] ELSE [v |-> r.V, err |-> r.Err]

\* ------------------------------------------------------------ composition
Middlewares == {"logging", "instrumenting"}

\* svc as main builds it, outermost decorator first
\* the decorators applied in the other order
mainLoggingOutermost == <<"logging", "instrumenting">>

main == <<"instrumenting", "logging">>

Stacks == UNION {[1..k -> Middlewares] : k \in 0..MaxDepth}

Methods == {"uppercase", "count"}

methodOf(route) == IF route = "/uppercase" THEN "uppercase" ELSE "count"

\* fmt.Sprint of a bool
Sprint(b) == IF b THEN "true" ELSE "false"

Labels == Methods \X {"true", "false"}

VARIABLES
  stack,           \* the decorators around stringService, outermost first
  pc,              \* where each goroutine is in the handling of its request
  route,           \* the path of the request a goroutine serves
  body,            \* the body of that request
  req,             \* the decoded request
  level,           \* the frame of the decorator chain that is executing
  ret,             \* the (value, error) pair being returned up the chain
  resp,            \* the response object the endpoint returned
  wire,            \* the HTTP response written to the connection
  failure,         \* the error handed to the transport's error encoder
  logger,          \* the lines written to the logger, oldest first
  requestCount,    \* counter, per label values
  requestLatency,  \* observations, per label values
  countResult,     \* observations
  calls,           \* the calls that have returned to an endpoint
  trace,           \* what has happened so far in a goroutine's request
  nreq             \* number of requests received

vars == <<stack, pc, route, body, req, level, ret, resp, wire, failure, logger,
          requestCount, requestLatency, countResult, calls, trace, nreq>>

metrics == <<requestCount, requestLatency, countResult>>

NoResponse == [status |-> 0]
NoObject == [V |-> <<>>, Err |-> ""]
NoBody == [form |-> "truncated", field |-> "absent", s |-> <<>>, rest |-> "eof"]
NoReturn == [v |-> <<>>, err |-> nil]

InitWith(st) ==
  /\ stack = st
  /\ pc = [p \in Procs |-> "idle"]
  /\ route = [p \in Procs |-> "/uppercase"]
  /\ body = [p \in Procs |-> NoBody]
  /\ req = [p \in Procs |-> [S |-> <<>>]]
  /\ level = [p \in Procs |-> 0]
  /\ ret = [p \in Procs |-> NoReturn]
  /\ resp = [p \in Procs |-> NoObject]
  /\ wire = [p \in Procs |-> NoResponse]
  /\ failure = [p \in Procs |-> nil]
  /\ logger = <<>>
  /\ requestCount = [l \in Labels |-> 0]
  /\ requestLatency = [l \in Labels |-> EmptyBag]
  /\ countResult = EmptyBag
  /\ calls = EmptyBag
  /\ trace = [p \in Procs |-> <<>>]
  /\ nreq = 0

Init == InitWith(main)

\* any stack of decorators around the service
InitAny == \E st \in Stacks : InitWith(st)

\* ---------------------------------------------------------------- actions
\* the server accepts a request and starts a goroutine for it
Serve(p) ==
  /\ pc[p] = "idle"
  /\ nreq < MaxRequests
  /\ \E r \in Routes, b \in Bodies :
       /\ route' = [route EXCEPT ![p] = r]
       /\ body' = [body EXCEPT ![p] = b]
  /\ pc' = [pc EXCEPT ![p] = "decode"]
  /\ req' = [req EXCEPT ![p] = [S |-> <<>>]]
  /\ level' = [level EXCEPT ![p] = 0]
  /\ ret' = [ret EXCEPT ![p] = NoReturn]
  /\ resp' = [resp EXCEPT ![p] = NoObject]
  /\ wire' = [wire EXCEPT ![p] = NoResponse]
  /\ failure' = [failure EXCEPT ![p] = nil]
  /\ trace' = [trace EXCEPT ![p] = <<>>]
  /\ nreq' = nreq + 1
  /\ UNCHANGED <<stack, logger, metrics, calls>>

Decode(p, d) ==
  /\ trace' = [trace EXCEPT ![p] = Append(@, "decode")]
  /\ IF d.err # nil
       THEN /\ failure' = [failure EXCEPT ![p] = d.err]
            /\ pc' = [pc EXCEPT ![p] = "fail"]
            /\ UNCHANGED req
       ELSE /\ req' = [req EXCEPT ![p] = [S |-> d.S]]
            /\ pc' = [pc EXCEPT ![p] = "endpoint"]
            /\ UNCHANGED failure
  /\ UNCHANGED <<stack, route, body, level, ret, resp, wire, logger, metrics, calls, nreq>>

DecodeUppercase(p) ==
  /\ pc[p] = "decode"
  /\ route[p] = "/uppercase"
  /\ Decode(p, decodeUppercaseRequest(body[p]))

DecodeCount(p) ==
  /\ pc[p] = "decode"
  /\ route[p] = "/count"
  /\ Decode(p, decodeCountRequest(body[p]))

\* the transport's error encoder answers a request that failed
ErrorEncode(p) ==
  /\ pc[p] = "fail"
  /\ wire' = [wire EXCEPT ![p] = [status |-> 500, body |-> failure[p]]]
  /\ pc' = [pc EXCEPT ![p] = "idle"]
  /\ UNCHANGED <<stack, route, body, req, level, ret, resp, failure, logger, metrics,
                 calls, trace, nreq>>

\* the endpoint closure calls svc.Uppercase / svc.Count
EndpointCall(p) ==
  /\ pc[p] = "endpoint"
  /\ pc' = [pc EXCEPT ![p] = "call"]
  /\ level' = [level EXCEPT ![p] = 1]
  /\ UNCHANGED <<stack, route, body, req, ret, resp, wire, failure, logger, metrics,
                 calls, trace, nreq>>

\* a decorator is entered: it registers its deferred function and calls next
Enter(p, kind) ==
  /\ pc[p] = "call"
  /\ level[p] <= Len(stack)
  /\ stack[level[p]] = kind
  /\ level' = [level EXCEPT ![p] = @ + 1]
  /\ trace' = [trace EXCEPT ![p] = Append(@, kind \o " entry")]
  /\ UNCHANGED <<stack, pc, route, body, req, ret, resp, wire, failure, logger,
                 metrics, calls, nreq>>

\* the innermost call reaches stringService
Service(p, r) ==
  /\ pc[p] = "call"
  /\ level[p] = Len(stack) + 1
  /\ ret' = [ret EXCEPT ![p] = r]
  /\ pc' = [pc EXCEPT ![p] = "return"]
  /\ level' = [level EXCEPT ![p] = Len(stack)]
  /\ trace' = [trace EXCEPT ![p] = Append(@, "service")]
  /\ UNCHANGED <<stack, route, body, req, resp, wire, failure, logger, metrics, calls, nreq>>

ServiceUppercase(p) ==
  /\ methodOf(route[p]) = "uppercase"
  /\ Service(p, Uppercase(req[p].S))

ServiceCount(p) ==
  /\ methodOf(route[p]) = "count"
  /\ Service(p, Count(req[p].S))

\* --------------------------------------------------------------- logging
\* the key/value pairs handed to mw.logger.Log by the deferred functions
loggingMiddlewareUppercaseLog(s, r, took) ==
  [method |-> "uppercase", input |-> s, output |-> r.v, err |-> r.err, took |-> took]

loggingMiddlewareCountLog(s, r, took) ==
  [method |-> "count", input |-> s, n |-> r.v, took |-> took]

\* what the decorator returns for the pair r its next returned
loggingMiddlewareUppercase(r) == r

\* a decorator that loses the error of its next
loggingMiddlewareCountDropErr(r) == [v |-> r.v, err |-> nil]

loggingMiddlewareCount(r) == r

LoggingUppercaseEnter(p) ==
  /\ methodOf(route[p]) = "uppercase"
  /\ Enter(p, "logging")

LoggingCountEnter(p) ==
  /\ methodOf(route[p]) = "count"
  /\ Enter(p, "logging")

\* the frame of a logging decorator returns: next has returned r, the
\* deferred function writes the line, the caller receives out
LoggingReturn(p, line, out) ==
  /\ pc[p] = "return"
  /\ level[p] >= 1
  /\ stack[level[p]] = "logging"
  /\ logger' = Append(logger, line)
  /\ ret' = [ret EXCEPT ![p] = out]
  /\ level' = [level EXCEPT ![p] = @ - 1]
  /\ trace' = [trace EXCEPT ![p] = Append(@, "log")]
  /\ UNCHANGED <<stack, pc, route, body, req, resp, wire, failure, metrics, calls, nreq>>

LoggingUppercaseReturn(p) ==
  /\ methodOf(route[p]) = "uppercase"
  /\ \E took \in Durations :
       LET out == loggingMiddlewareUppercase(ret[p])
       IN LoggingReturn(p, loggingMiddlewareUppercaseLog(req[p].S, out, took), out)

LoggingCountReturn(p) ==
  /\ methodOf(route[p]) = "count"
  /\ \E took \in Durations :
       LET out == loggingMiddlewareCount(ret[p])
       IN LoggingReturn(p, loggingMiddlewareCountLog(req[p].S, out, took), out)

\* --------------------------------------------------------- instrumenting
\* the label values the deferred functions compute
instrumentingMiddlewareUppercaseLvs(r) == <<"uppercase", Sprint(r.err # nil)>>

instrumentingMiddlewareCountLvs(r) == <<"count", "false">>

\* the values the deferred functions hand to countResult.Observe
instrumentingMiddlewareUppercaseObserve(r) == EmptyBag

\* observing the result only when the call succeeded
instrumentingMiddlewareCountObserveOk(r) ==
  IF r.err # nil THEN EmptyBag ELSE SetToBag({r.v})

instrumentingMiddlewareCountObserve(r) == SetToBag({r.v})

instrumentingMiddlewareUppercase(r) == r

instrumentingMiddlewareCount(r) == r

InstrumentingUppercaseEnter(p) ==
  /\ methodOf(route[p]) = "uppercase"
  /\ Enter(p, "instrumenting")

InstrumentingCountEnter(p) ==
  /\ methodOf(route[p]) = "count"
  /\ Enter(p, "instrumenting")

\* the frame of an instrumenting decorator returns: the deferred function
\* adds 1 to the counter and observes the latency under lvs, and observes
\* obs into countResult
InstrumentingReturn(p, lvs, took, obs, out) ==
  /\ pc[p] = "return"
  /\ level[p] >= 1
  /\ stack[level[p]] = "instrumenting"
  /\ requestCount' = [requestCount EXCEPT ![lvs] = @ + 1]
  /\ requestLatency' = [requestLatency EXCEPT ![lvs] = @ (+) SetToBag({took})]
  /\ countResult' = countResult (+) obs
  /\ ret' = [ret EXCEPT ![p] = out]
  /\ level' = [level EXCEPT ![p] = @ - 1]
  /\ trace' = [trace EXCEPT ![p] = Append(@, "metrics")]
  /\ UNCHANGED <<stack, pc, route, body, req, resp, wire, failure, logger, calls, nreq>>

InstrumentingUppercaseReturn(p) ==
  /\ methodOf(route[p]) = "uppercase"
  /\ \E took \in Durations :
       LET out == instrumentingMiddlewareUppercase(ret[p])
       IN InstrumentingReturn(p, instrumentingMiddlewareUppercaseLvs(out), took,
                              instrumentingMiddlewareUppercaseObserve(out), out)

InstrumentingCountReturn(p) ==
  /\ methodOf(route[p]) = "count"
  /\ \E took \in Durations :
       LET out == instrumentingMiddlewareCount(ret[p])
       IN InstrumentingReturn(p, instrumentingMiddlewareCountLvs(out), took,
                              instrumentingMiddlewareCountObserve(out), out)

\* ------------------------------------------------------- endpoint, encode
\* svc.Uppercase / svc.Count has returned to the endpoint closure, which
\* returns out to the transport
EndpointReturn(p, out) ==
  /\ pc[p] = "return"
  /\ level[p] = 0
  /\ calls' = calls (+) SetToBag({[method |-> methodOf(route[p]),
                                   failed |-> ret[p].err # nil,
                                   n |-> IF methodOf(route[p]) = "count"
                                           THEN ret[p].v ELSE 0]})
  /\ IF out.err # nil
       THEN /\ failure' = [failure EXCEPT ![p] = out.err]
            /\ pc' = [pc EXCEPT ![p] = "fail"]
            /\ UNCHANGED resp
       ELSE /\ resp' = [resp EXCEPT ![p] = out.response]
            /\ pc' = [pc EXCEPT ![p] = "encode"]
            /\ UNCHANGED failure
  /\ UNCHANGED <<stack, route, body, req, level, ret, wire, logger, metrics, trace, nreq>>

UppercaseEndpointReturn(p) ==
  /\ route[p] = "/uppercase"
  /\ EndpointReturn(p, makeUppercaseEndpoint(ret[p]))

CountEndpointReturn(p) ==
  /\ route[p] = "/count"
  /\ EndpointReturn(p, makeCountEndpoint(ret[p]))

EncodeResponse(p) ==
  /\ pc[p] = "encode"
  /\ wire' = [wire EXCEPT ![p] = [status |-> 200, body |-> encodeResponse(resp[p])]]
  /\ pc' = [pc EXCEPT ![p] = "idle"]
  /\ trace' = [trace EXCEPT ![p] = Append(@, "encode")]
  /\ UNCHANGED <<stack, route, body, req, level, ret, resp, failure, logger, metrics,
                 calls, nreq>>

Next == \E p \in Procs :
  \/ Serve(p)
  \/ DecodeUppercase(p)
  \/ DecodeCount(p)
  \/ ErrorEncode(p)
  \/ EndpointCall(p)
  \/ LoggingUppercaseEnter(p)
  \/ LoggingCountEnter(p)
  \/ InstrumentingUppercaseEnter(p)
  \/ InstrumentingCountEnter(p)
  \/ ServiceUppercase(p)
  \/ ServiceCount(p)
  \/ LoggingUppercaseReturn(p)
  \/ LoggingCountReturn(p)
  \/ InstrumentingUppercaseReturn(p)
  \/ InstrumentingCountReturn(p)
  \/ UppercaseEndpointReturn(p)
  \/ CountEndpointReturn(p)
  \/ EncodeResponse(p)

Spec == Init /\ [][Next]_vars

SpecAny == InitAny /\ [][Next]_vars
\* ------------------------------------------------------------- properties
method(p) == methodOf(route[p])

\* stringService has just returned to its caller in goroutine p
ServiceReturned(p) == pc[p] = "return" /\ level[p] = Len(stack)

\* the decorated call has returned to the endpoint closure in goroutine p
CallReturned(p) == pc[p] = "return" /\ level[p] = 0

\* no call is between the return of the outermost decorator and its endpoint
NoPendingReturn == \A p \in Procs : ~CallReturned(p)

IsPrefix(s, t) == Len(s) <= Len(t) /\ \A i \in 1..Len(s) : s[i] = t[i]

\* C1: Uppercase(s) returns the uppercase transform of s (every character
\* replaced by its upper-case form) and no error when s is not empty, and
\* ("", "Empty string") when s is empty; never a non-empty value with an
\* error.
C1_UppercaseContract ==
  \A p \in Procs :
    (ServiceReturned(p) /\ method(p) = "uppercase") =>
      LET s == req[p].S
          r == ret[p]
      IN /\ s # <<>> => /\ r.err = nil
                        /\ Len(r.v) = Len(s)
                        /\ \A i \in 1..Len(s) : r.v[i] = upper(s[i])
         /\ s = <<>> => r.v = <<>> /\ r.err = EmptyString
         /\ ~(r.v # <<>> /\ r.err # nil)

C1_Witness ==
  \E p \in Procs :
    /\ ServiceReturned(p) /\ method(p) = "uppercase"
    /\ req[p].S # <<>> /\ ret[p].v # req[p].S

\* C2: for every non-empty s, Count(s) returns the number of characters of
\* s with no error.
C2_CountIsCharacterLength ==
  \A p \in Procs :
    (ServiceReturned(p) /\ method(p) = "count" /\ req[p].S # <<>>) =>
      ret[p].v = Len(req[p].S) /\ ret[p].err = nil

\* C3: Count("") returns -1 with a non-empty error, and the response to a
\* /count request whose s is empty has v = -1 and err = "Empty string".
C3_CountEmpty ==
  \A p \in Procs :
    (route[p] = "/count" /\ req[p].S = <<>>) =>
      /\ ServiceReturned(p) => ret[p].v = -1 /\ ret[p].err \notin {nil, ""}
      /\ pc[p] = "encode" => resp[p].V = -1 /\ resp[p].Err = EmptyString
      /\ wire[p].status = 200 =>
           /\ DOMAIN wire[p].body = {"v", "err"}
           /\ wire[p].body.v = -1
           /\ wire[p].body.err = EmptyString

C3_Witness ==
  \E p \in Procs :
    /\ route[p] = "/count" /\ req[p].S = <<>>
    /\ wire[p].status = 200

\* C4: for a decoded request the endpoints return no transport-level error;
\* the response's err is non-empty exactly when the decorated service call
\* failed, and then v is the sentinel ("" or -1); otherwise v is the value
\* the call returned and err is empty.
C4_InBandError ==
  \A p \in Procs :
    /\ pc[p] = "fail" => jsonDecode(body[p]).err # nil
    /\ pc[p] = "encode" =>
         /\ resp[p].Err # "" <=> ret[p].err # nil
         /\ ret[p].err # nil =>
              resp[p].V = (IF method(p) = "uppercase" THEN <<>> ELSE -1)
         /\ ret[p].err = nil => resp[p].V = ret[p].v /\ resp[p].Err = ""

C4_Witness ==
  \E p, q \in Procs :
    /\ pc[p] = "encode" /\ resp[p].Err # ""
    /\ pc[q] = "encode" /\ resp[q].Err = "" /\ method(q) = "count"

\* C5: through any stack of logging and instrumenting decorators, in any
\* order, a call returns the value and the error of the undecorated service.
C5_MiddlewareTransparent ==
  \A p \in Procs :
    (pc[p] = "return") =>
      ret[p] = (IF method(p) = "uppercase" THEN Uppercase(req[p].S)
                ELSE Count(req[p].S))

C5_Witness ==
  \E p \in Procs :
    /\ CallReturned(p)
    /\ stack = <<"logging", "instrumenting">>
    /\ ret[p].err # nil

\* the number of calls of method m with outcome e that have returned
Completed(m, e) ==
  LET cs == {c \in BagToSet(calls) : c.method = m /\ c.failed = e}
      RECURSIVE Sum(_)
      Sum(S) == IF S = {} THEN 0
                ELSE LET c == CHOOSE x \in S : TRUE
                     IN CopiesIn(c, calls) + Sum(S \ {c})
  IN Sum(cs)

\* C6: the request counter tagged {method m, error e} equals the number of
\* completed calls of m whose outcome was e, e being true exactly when the
\* call returned an error.
C6_CounterMatchesOutcome ==
  NoPendingReturn =>
    \A m \in Methods, e \in BOOLEAN :
      requestCount[<<m, Sprint(e)>>] = Completed(m, e)

\* C7: every line written by the logging decorator carries the operation
\* name, the input, the output or result, the elapsed duration and, for a
\* failing call, the error.
C7_LogLineComplete ==
  \A i \in DOMAIN logger :
    LET l == logger[i]
    IN /\ {"method", "input", "took"} \subseteq DOMAIN l
       /\ {"output", "n"} \cap DOMAIN l # {}
       /\ l.input = <<>> => "err" \in DOMAIN l /\ l.err # nil

\* C8: a request whose body is malformed JSON ends in a transport-level
\* error, without the endpoint, the decorators or the service being invoked.
C8_MalformedNeverServed ==
  \A p \in Procs :
    (pc[p] # "idle" /\ ~WellFormed(body[p])) => pc[p] \in {"decode", "fail"}

Results == -1..(2 * MaxLen)

\* C9: every Count call through the instrumenting decorator records one
\* observation in countResult, the value it returns (-1 when it fails);
\* Uppercase calls record none.
C9_CountResultObserved ==
  NoPendingReturn =>
    /\ BagToSet(countResult) \subseteq Results
    /\ \A n \in Results :
         CopiesIn(n, countResult) =
           CopiesIn([method |-> "count", failed |-> TRUE, n |-> n], calls)
           + CopiesIn([method |-> "count", failed |-> FALSE, n |-> n], calls)
    /\ \A c \in BagToSet(calls) : (c.method = "count" /\ c.failed) => c.n = -1

C9_Witness ==
  /\ NoPendingReturn
  /\ CopiesIn(-1, countResult) = 1
  /\ \E c \in BagToSet(calls) : c.method = "uppercase"

Order == <<"decode", "instrumenting entry", "logging entry", "service",
           "log", "metrics", "encode">>

\* C10: within one request of the reference composition the events happen
\* in the order decode, instrumenting entry, logging entry, service call,
\* log line, metrics, response encoded, whatever other requests do.
C10_RequestOrder ==
  \A p \in Procs :
    /\ IsPrefix(trace[p], Order)
    /\ wire[p].status = 200 => trace[p] = Order

C10_Witness ==
  \E p, q \in Procs :
    /\ wire[p].status = 200 /\ trace[p] = Order
    /\ p # q /\ Len(trace[q]) = 4
====
